---- MODULE Spec2Model ----
(***************************************************************************)
(* rachael-assistant, api-core: the planner/executor pipeline with its     *)
(* approval gate, the task store (PostgreSQL rows plus the in-memory        *)
(* asyncio.Event registry) and the HTTP endpoints that drive them.          *)
(*                                                                          *)
(* The process is one asyncio event loop: code between two awaits runs      *)
(* without interruption.  An action of this model is one such segment       *)
(* together with the effect of the awaited call that ends it (the SQL       *)
(* statement, the LLM call, the browser call).                              *)
(***************************************************************************)
EXTENDS Integers, Sequences, FiniteSets, Bags, TLC

VARIABLES
    task,        \* in-memory TaskRecord objects, by task id
    ex,          \* per ingress request / executor coroutine: position and locals
    db_tasks,    \* table tasks: rows by id
    db_approvals,\* table approvals: rows by id
    events,      \* PostgreSQLStore._approval_events: approval id -> is_set
    inflight,    \* bag of approval ids: approve requests between their two store calls
    answers,     \* history: bag of <<approval id, HTTP status>> of answered approve requests
    gateway,     \* history: step indexes handed to browser_client.dispatch, per task
    fires,       \* history: number of event.set() calls, per approval id
    published,   \* history: approval ids a client has been able to read from a task row
    uuids,       \* number of approval uuids generated so far
    now,         \* logical clock of the database's now()
    faults,      \* number of store statements that have raised so far
    started,     \* history: bag of task ids handed to asyncio.create_task(executor.run(task))
    worker,      \* the periodic worker process: its setting, its cron minutes, its job
    client,      \* one BrowserClient.dispatch call: its input, the requests it sent, its end
    calls,       \* history: the calls made on the store by a caller other than the program
    agent        \* the Browser Agent process: its BrowserManager and its last request

\* what the planner/executor pipeline never touches
outside == <<worker, client, calls, agent>>

vars == <<task, ex, db_tasks, db_approvals, events, inflight, answers, gateway, fires,
          published, uuids, now, faults, started, outside>>

\* ---------------------------------------------------------------- bounds
MaxSteps == 2          \* plan steps the LLM hands out in one run, over all plans
MaxApproveCalls == 2   \* POST /v1/approvals/{id}/ok requests in one run
MaxStoreFaults == 1    \* store statements that raise in one run
MaxStoreCalls == 4     \* calls a caller other than the program makes on the store
MaxN == 61             \* HEALTH_CHECK_EVERY_N_MINUTES ranges over -MaxN..MaxN
MaxLimit == 3          \* MAX_STEPS_PER_TASK ranges over 1..MaxLimit
MaxOver == 2           \* requests counted for a task id beyond its limit

\* the ingress requests of a run, by the uuid each generates for its task
TaskIds == {1}

\* two ingress requests
PairIds == {1, 2}

\* ---------------------------------------------------------------- values
NoId == 0                      \* None for pending_approval_id / a local approval id
NoPlan == <<>>                 \* None for task.plan (build_plan never returns an empty plan)
NoTime == 0                    \* NULL resolved_at
UnknownId == -1                \* an approval id that is in no row

Tools == {<<"browser", "click">>, <<"mail", "send">>}

PlanSteps == [tool : Tools, needs_ok : BOOLEAN]

RECURSIVE SeqsUpTo(_, _)
SeqsUpTo(S, n) ==
    IF n = 0 THEN {<<>>}
    ELSE LET shorter == SeqsUpTo(S, n - 1)
         IN  shorter \cup {Append(s, x) : s \in {q \in shorter : Len(q) = n - 1}, x \in S}

\* what llm_client.get_plan_json may do: return an object of the Plan schema
\* (its steps possibly empty), return another object, or raise
LlmOutputs ==
    [kind : {"plan"}, steps : SeqsUpTo(PlanSteps, MaxSteps)]
        \cup [kind : {"bogus", "error"}, steps : {<<>>}]

\* Planner.build_plan: TRUE when it returns raw's plan, FALSE when it raises
build_plan_returns(raw) == raw.kind = "plan" /\ raw.steps # <<>>

ServiceAlwaysBrowser(tool) == "browser"

\* str.partition(".")[0]
Service(tool) == tool[1]

\* ---------------------------------------------------------------- status mapping
_STATUS_TO_DB_NoPaused(s) ==
    CASE s = "running"   -> "running"
      [] s = "completed" -> "done"
      [] s = "failed"    -> "failed"
      [] OTHER           -> "pending"

_STATUS_TO_DB(s) ==
    CASE s = "pending"             -> "pending"
      [] s = "running"             -> "running"
      [] s = "paused_for_approval" -> "waiting_approval"
      [] s = "completed"           -> "done"
      [] s = "failed"              -> "failed"
      [] OTHER                     -> "pending"

_STATUS_FROM_DB_NoWaiting(d) ==
    CASE d = "running" -> "running"
      [] d = "done"    -> "completed"
      [] d = "failed"  -> "failed"
      [] OTHER         -> "pending"

_STATUS_FROM_DB(d) ==
    CASE d = "pending"          -> "pending"
      [] d = "running"          -> "running"
      [] d = "waiting_approval" -> "paused_for_approval"
      [] d = "done"             -> "completed"
      [] d = "failed"           -> "failed"
      [] OTHER                  -> "pending"

\* TaskStatus
Statuses == {"pending", "running", "paused_for_approval", "completed", "failed"}

\* ---------------------------------------------------------------- records
\* an error text is modelled by its parts: which message it is and the values
\* formatted into it.  NoError is None.
NoError == <<"None">>

TaskRecord ==
    [status |-> "pending", plan |-> NoPlan, results |-> <<>>, current_step |-> 0,
     error |-> NoError, reply |-> "None", pending_approval_id |-> NoId]

StepResultNoError(idx, step, status, error) ==
    [step_index |-> idx, tool |-> step.tool, status |-> status, error |-> NoError]

StepResult(idx, step, status, error) ==
    [step_index |-> idx, tool |-> step.tool, status |-> status, error |-> error]

ApprovalRecord(t, step_index) ==
    [task_id |-> t, step_index |-> step_index, status |-> "pending", resolved_at |-> NoTime]

TaskRowNoResults(tk) ==
    [status |-> _STATUS_TO_DB(tk.status), plan |-> tk.plan, results |-> <<>>,
     current_step |-> tk.current_step, pending_approval_id |-> tk.pending_approval_id,
     error |-> tk.error]

\* the row save_task writes: reply is not a column and is not in plan_json
TaskRow(tk) ==
    [status |-> _STATUS_TO_DB(tk.status), plan |-> tk.plan, results |-> tk.results,
     current_step |-> tk.current_step, pending_approval_id |-> tk.pending_approval_id,
     error |-> tk.error]

\* PostgreSQLStore._row_to_task
_row_to_task(row) ==
    [status |-> _STATUS_FROM_DB(row.status), plan |-> row.plan, results |-> row.results,
     current_step |-> row.current_step, error |-> row.error, reply |-> "None",
     pending_approval_id |-> row.pending_approval_id]

Put(f, k, v) == [x \in DOMAIN f \cup {k} |-> IF x = k THEN v ELSE f[x]]

\* PostgreSQLStore.get_task of a stored id: the row through _row_to_task
get_task(t) == _row_to_task(db_tasks[t])

\* ---------------------------------------------------------------- store
\* a store statement either completes or raises (connection lost, pool closed)
SaveOutcomes == IF faults < MaxStoreFaults THEN {TRUE, FALSE} ELSE {TRUE}

\* PostgreSQLStore.save_task: INSERT ... ON CONFLICT (id) DO UPDATE
save_task(t, tk, ok) ==
    IF ok THEN db_tasks' = Put(db_tasks, t, TaskRow(tk)) /\ faults' = faults
          ELSE db_tasks' = db_tasks /\ faults' = faults + 1

\* -------------------------------------------------------------- ingress
\* no response body yet (or an error body)
NoResponse == [status |-> "none"]

_to_response_Final(tk) ==
    [status |-> "completed", current_step |-> tk.current_step, results |-> tk.results,
     pending_approval_id |-> tk.pending_approval_id, error |-> tk.error, reply |-> tk.reply]

\* tasks.py _to_response: the TaskResponse projection of a TaskRecord
_to_response(tk) ==
    [status |-> tk.status, current_step |-> tk.current_step, results |-> tk.results,
     pending_approval_id |-> tk.pending_approval_id, error |-> tk.error, reply |-> tk.reply]

\* chat.py: ChatResponse(task_id, status, message)
ChatResponse(tk) == [status |-> tk.status]

\* a request and the executor activity it starts: the position in the code,
\* the endpoint, and run's locals (idx, the approval id, approved, exc)
NewEx(via) ==
    [pc |-> "plan", via |-> via, idx |-> 0, approval |-> NoId, http |-> 0,
     approved |-> "unset", exc |-> "unset", response |-> NoResponse]

At(t, pc) == t \in DOMAIN ex /\ ex[t].pc = pc

Goto(t, pc) == ex' = [ex EXCEPT ![t].pc = pc]

ReusedId(t) == t = 1

\* str(uuid.uuid4()): an id no earlier request has drawn
FreshId(t) == t = Len(task) + 1

\* POST /v1/tasks/enqueue, up to the planner call: a fresh uuid, the task is
\* saved as pending.  A raising save ends the request (HTTP 500).
EnqueueCreate(t, ok) ==
    /\ FreshId(t)
    /\ task' = Put(task, t, TaskRecord)
    /\ save_task(t, TaskRecord, ok)
    /\ ex' = Put(ex, t, IF ok THEN NewEx("enqueue")
                              ELSE [NewEx("enqueue") EXCEPT !.pc = "crashed", !.http = 500])
    /\ gateway' = Put(gateway, t, <<>>)
    /\ UNCHANGED <<db_approvals, events, inflight, answers, fires, published, uuids, now, started, outside>>

\* POST /v1/chat, up to the planner call.  store.save_task(task) is called
\* without await: the coroutine object is dropped and no statement runs.
ChatCreate(t) ==
    /\ FreshId(t)
    /\ task' = Put(task, t, TaskRecord)
    /\ ex' = Put(ex, t, NewEx("chat"))
    /\ gateway' = Put(gateway, t, <<>>)
    /\ UNCHANGED <<db_tasks, db_approvals, events, inflight, answers, fires, published, uuids, now, faults,
                   started, outside>>

\* what the endpoint's save does: enqueue awaits it, chat does not
IngressSave(t, tk, ok) ==
    IF ex[t].via = "enqueue" THEN save_task(t, tk, ok)
                             ELSE ok /\ UNCHANGED <<db_tasks, faults>>

PlannedAndRunning(tk, plan) == [tk EXCEPT !.plan = plan, !.status = "running"]

\* enqueue_task / chat after build_plan: task.plan = plan (task.goal = plan.goal)
Planned(tk, plan) == [tk EXCEPT !.plan = plan]

PlannerFailedStillPending(tk) == [tk EXCEPT !.error = <<"planner">>]

PlannerFailedNoError(tk) == [tk EXCEPT !.status = "failed"]

\* enqueue_task / chat when build_plan raised: status = failed, error = str(exc)
PlannerFailed(tk) == [tk EXCEPT !.status = "failed", !.error = <<"planner">>]

RECURSIVE PlannedSteps(_)
PlannedSteps(n) == IF n = 0 THEN 0 ELSE Len(task[n].plan) + PlannedSteps(n - 1)

\* Planner.build_plan returns a plan: attach it, save, schedule executor.run
\* with asyncio.create_task and answer (202 on enqueue, 200 on chat).  There
\* is no await between create_task and the return: the response is built
\* before the new activity takes its first step.
PlanOk(t, raw, ok) ==
    /\ At(t, "plan")
    /\ build_plan_returns(raw)
    /\ PlannedSteps(Len(task)) + Len(raw.steps) <= MaxSteps
    /\ task' = [task EXCEPT ![t] = Planned(@, raw.steps)]
    /\ IngressSave(t, task'[t], ok)
    /\ ex' = [ex EXCEPT ![t].pc = IF ok THEN "run" ELSE "crashed",
                        ![t].http = IF ~ok THEN 500
                                    ELSE IF ex[t].via = "enqueue" THEN 202 ELSE 200,
                        ![t].response = IF ~ok THEN NoResponse
                                        ELSE IF ex[t].via = "enqueue"
                                          THEN _to_response(task'[t])
                                          ELSE ChatResponse(task'[t])]
    /\ started' = IF ok THEN started (+) SetToBag({t}) ELSE started
    /\ UNCHANGED <<db_approvals, events, inflight, answers, gateway, fires, published, uuids, now,
                   outside>>

\* Planner.build_plan raises (LLM error, invalid plan, empty steps): the
\* endpoint marks the task failed, saves and answers 502.
PlanFail(t, raw, ok) ==
    /\ At(t, "plan")
    /\ ~build_plan_returns(raw)
    /\ task' = [task EXCEPT ![t] = PlannerFailed(@)]
    /\ IngressSave(t, task'[t], ok)
    /\ ex' = [ex EXCEPT ![t].pc = IF ok THEN "rejected" ELSE "crashed",
                        ![t].http = IF ok THEN 502 ELSE 500]
    /\ UNCHANGED <<db_approvals, events, inflight, answers, gateway, fires, published, uuids, now, started, outside>>

\* -------------------------------------------------------------- executor
Step(t) == task[t].plan[ex[t].idx + 1]       \* plan.steps[idx], idx counted from 0

NumSteps(t) == Len(task[t].plan)

RecordedNothing(tk, idx, step, status, error) == tk

\* Executor._record_step, in memory: results.append(StepResult(...))
Recorded(tk, idx, step, status, error) ==
    [tk EXCEPT !.results = Append(@, StepResult(idx, step, status, error))]

PausedWithoutId(tk, a) == [tk EXCEPT !.status = "paused_for_approval"]

\* _request_approval before the wait
Paused(tk, a) == [tk EXCEPT !.status = "paused_for_approval", !.pending_approval_id = a]

\* _request_approval after the wait returned
Resumed(tk) == [tk EXCEPT !.status = "running", !.pending_approval_id = NoId]

FailedKeepsStatus(tk, error) == [tk EXCEPT !.error = error]

\* run after the approval was not received, and after a step raised
Failed(tk, error) == [tk EXCEPT !.status = "failed", !.error = error]

\* run, entry: status = running, save
Run(t, ok) ==
    /\ At(t, "run")
    /\ task' = [task EXCEPT ![t].status = "running"]
    /\ save_task(t, task'[t], ok)
    /\ Goto(t, IF ok THEN "step" ELSE "crashed")
    /\ UNCHANGED <<db_approvals, events, inflight, answers, gateway, fires, published, uuids, now, started, outside>>

\* the approval gate of run: `if step.needs_ok`
NeedsApproval(step) == step.needs_ok

\* loop head: task.current_step = idx, save; then the gate or the dispatch
NextStep(t, ok) ==
    /\ At(t, "step")
    /\ ex[t].idx < NumSteps(t)
    /\ task' = [task EXCEPT ![t].current_step = ex[t].idx]
    /\ save_task(t, task'[t], ok)
    /\ Goto(t, IF ~ok THEN "crashed"
               ELSE IF NeedsApproval(Step(t)) THEN "approval" ELSE "dispatch")
    /\ UNCHANGED <<db_approvals, events, inflight, answers, gateway, fires, published, uuids, now, started, outside>>

\* save_approval's INSERT ... ON CONFLICT (id) DO NOTHING
InsertApproval(rows, a, approval) ==
    IF a \in DOMAIN rows THEN rows ELSE Put(rows, a, approval)

FreshEvent(evs, a) == Put(evs, a, FALSE)

\* save_approval's `if approval.id not in self._approval_events`
EnsureEvent(evs, a) == IF a \in DOMAIN evs THEN evs ELSE Put(evs, a, FALSE)

\* _request_approval: ApprovalRecord(id=uuid4()), then save_approval's INSERT
\* ... ON CONFLICT (id) DO NOTHING
RequestApprovalInsert(t, ok) ==
    /\ At(t, "approval")
    /\ uuids' = uuids + 1
    /\ LET a == uuids + 1 IN
         /\ ex' = [ex EXCEPT ![t].pc = IF ok THEN "pause" ELSE "crashed",
                             ![t].approval = a]
         /\ IF ok
              THEN /\ db_approvals' = InsertApproval(db_approvals, a, ApprovalRecord(t, ex[t].idx))
                   /\ faults' = faults
              ELSE /\ db_approvals' = db_approvals
                   /\ faults' = faults + 1
    /\ UNCHANGED <<task, db_tasks, events, inflight, answers, gateway, fires, published, now, started, outside>>

\* the rest of save_approval (the Event is created if absent), then
\* status = paused_for_approval, pending_approval_id = approval.id, save
RequestApprovalPause(t, ok) ==
    /\ At(t, "pause")
    /\ LET a == ex[t].approval IN
         /\ events' = EnsureEvent(events, a)
         /\ fires' = IF a \in DOMAIN fires THEN fires ELSE Put(fires, a, 0)
         /\ task' = [task EXCEPT ![t] = Paused(@, a)]
         /\ save_task(t, task'[t], ok)
         /\ published' = IF ok THEN published \cup {a} ELSE published
    /\ Goto(t, IF ok THEN "wait" ELSE "crashed")
    /\ UNCHANGED <<db_approvals, inflight, answers, gateway, uuids, now, started, outside>>

WaitReturnsAlways(ev) == TRUE

WaitReturnsNever(ev) == FALSE

\* asyncio.wait_for(event.wait(), timeout=300) returns: the event is set
WaitReturns(ev) == ev = TRUE

\* on the signal: status = running, pending_approval_id = None, save
WaitSignalled(t, ok) ==
    /\ At(t, "wait")
    /\ WaitReturns(events[ex[t].approval])
    /\ task' = [task EXCEPT ![t] = Resumed(@)]
    /\ save_task(t, task'[t], ok)
    /\ ex' = [ex EXCEPT ![t].pc = IF ok THEN "dispatch" ELSE "crashed",
                        ![t].approval = NoId,
                        ![t].approved = IF ok THEN "True" ELSE @]
    /\ UNCHANGED <<db_approvals, events, inflight, answers, gateway, fires, published, uuids, now, started, outside>>

\* asyncio.TimeoutError: _request_approval returns False, the task untouched.
\* The 300 s elapse with the event unset; a set() after that finds no waiter.
WaitTimeout(t) ==
    /\ At(t, "wait")
    /\ ~events[ex[t].approval]
    /\ ex' = [ex EXCEPT ![t].pc = "skipped", ![t].approval = NoId, ![t].approved = "False"]
    /\ UNCHANGED <<task, db_tasks, db_approvals, events, inflight, answers, gateway, fires, published,
                   uuids, now, faults, started, outside>>

\* not approved: _record_step(..., "skipped", ...) appends and saves
RecordSkipped(t, ok) ==
    /\ At(t, "skipped")
    /\ task' = [task EXCEPT ![t] = Recorded(@, ex[t].idx, Step(t), "skipped", <<"not approved">>)]
    /\ save_task(t, task'[t], ok)
    /\ Goto(t, IF ok THEN "fail_approval" ELSE "crashed")
    /\ UNCHANGED <<db_approvals, events, inflight, answers, gateway, fires, published, uuids, now, started, outside>>

\* _dispatch: a service other than browser raises before any gateway call;
\* browser_client.dispatch returns the agent's answer or raises.  exc is the
\* exception the `except Exception as exc` of run will bind.
Dispatch(t, raises) ==
    /\ At(t, "dispatch")
    /\ IF Service(Step(t).tool) = "browser"
         THEN /\ gateway' = [gateway EXCEPT ![t] = Append(@, ex[t].idx)]
              /\ ex' = [ex EXCEPT ![t].pc = IF raises THEN "record_error" ELSE "record_ok",
                                  ![t].exc = IF raises THEN "gateway" ELSE @]
         ELSE /\ raises
              /\ gateway' = gateway
              /\ ex' = [ex EXCEPT ![t].pc = "record_error", ![t].exc = "service"]
    /\ UNCHANGED <<task, db_tasks, db_approvals, events, inflight, answers, fires, published, uuids,
                   now, faults, started, outside>>

SameIdx(idx) == idx

\* enumerate(plan.steps): the index of the next iteration
NextIdx(idx) == idx + 1

\* inside the try: _record_step(..., "ok", ...) appends and saves; a raising
\* save is caught by the same `except Exception`
RecordOk(t, ok) ==
    /\ At(t, "record_ok")
    /\ task' = [task EXCEPT ![t] = Recorded(@, ex[t].idx, Step(t), "ok", NoError)]
    /\ save_task(t, task'[t], ok)
    /\ ex' = [ex EXCEPT ![t].pc = IF ok THEN "step" ELSE "record_error",
                        ![t].idx = IF ok THEN NextIdx(@) ELSE @,
                        ![t].exc = IF ok THEN @ ELSE "store"]
    /\ UNCHANGED <<db_approvals, events, inflight, answers, gateway, fires, published, uuids, now, started, outside>>

\* except Exception: _record_step(..., "error", ...) appends and saves
RecordError(t, ok) ==
    /\ At(t, "record_error")
    /\ task' = [task EXCEPT ![t] = Recorded(@, ex[t].idx, Step(t), "error", <<ex[t].exc>>)]
    /\ save_task(t, task'[t], ok)
    /\ Goto(t, IF ok THEN "fail_step" ELSE "crashed")
    /\ UNCHANGED <<db_approvals, events, inflight, answers, gateway, fires, published, uuids, now, started, outside>>

\* not approved: status = failed, error = "Paso {idx} requería aprobación...",
\* save, return
FailNotApproved(t, ok) ==
    /\ At(t, "fail_approval")
    /\ task' = [task EXCEPT ![t] = Failed(@, <<"approval", ex[t].idx>>)]
    /\ save_task(t, task'[t], ok)
    /\ Goto(t, IF ok THEN "returned" ELSE "crashed")
    /\ UNCHANGED <<db_approvals, events, inflight, answers, gateway, fires, published, uuids, now, started, outside>>

\* step error: status = failed, error = "Error en paso {idx} ({tool}): ...",
\* save, return
FailStep(t, ok) ==
    /\ At(t, "fail_step")
    /\ task' = [task EXCEPT ![t] = Failed(@, <<"step", ex[t].idx, Step(t).tool, ex[t].exc>>)]
    /\ save_task(t, task'[t], ok)
    /\ Goto(t, IF ok THEN "returned" ELSE "crashed")
    /\ UNCHANGED <<db_approvals, events, inflight, answers, gateway, fires, published, uuids, now, started, outside>>

\* after the loop: status = completed, then the generate_reply call
Complete(t) ==
    /\ At(t, "step")
    /\ ex[t].idx >= NumSteps(t)
    /\ task' = [task EXCEPT ![t].status = "completed"]
    /\ Goto(t, "reply")
    /\ UNCHANGED <<db_tasks, db_approvals, events, inflight, answers, gateway, fires, published, uuids,
                   now, faults, started, outside>>

\* reply = the LLM's text, or the canned one when generate_reply raised; save
Reply(t, raises, ok) ==
    /\ At(t, "reply")
    /\ task' = [task EXCEPT ![t].reply = IF raises THEN "canned" ELSE "llm"]
    /\ save_task(t, task'[t], ok)
    /\ Goto(t, IF ok THEN "returned" ELSE "crashed")
    /\ UNCHANGED <<db_approvals, events, inflight, answers, gateway, fires, published, uuids, now, started, outside>>

\* ------------------------------------------------------ approval endpoint
\* PostgreSQLStore.get_approval: the row as an ApprovalRecord, or None
get_approval(a) ==
    IF a \in DOMAIN db_approvals
      THEN [found |-> TRUE, approved |-> db_approvals[a].status = "approved"]
      ELSE [found |-> FALSE, approved |-> FALSE]

\* number of requests so far, answered or not
Requests == BagCardinality(inflight) + BagCardinality(answers)

Answer(a, code) == answers' = answers (+) SetToBag({<<a, code>>})

\* approve, first part: get_approval, 404 when missing, 409 when approved
ApproveGet(a) ==
    /\ Requests < MaxApproveCalls
    /\ a \in published \cup {UnknownId}
    /\ LET approval == get_approval(a) IN
         IF ~approval.found THEN Answer(a, 404) /\ inflight' = inflight
         ELSE IF approval.approved THEN Answer(a, 409) /\ inflight' = inflight
         ELSE inflight' = inflight (+) SetToBag({a}) /\ answers' = answers
    /\ UNCHANGED <<task, ex, db_tasks, db_approvals, events, gateway, fires, published,
                   uuids, now, faults, started, outside>>

SignalDropped(evs, a) == evs

SignalAll(evs, a) == [b \in DOMAIN evs |-> TRUE]

\* resolve_approval after the UPDATE changed a row: event.set()
Signal(evs, a) == [evs EXCEPT ![a] = TRUE]

ResolvableAnyStatus(row) == TRUE

\* resolve_approval's UPDATE ... WHERE id = $1 AND status = 'pending'
Resolvable(row) == row.status = "pending"

\* resolve_approval returns True: its UPDATE finds the row pending
Updates(a) == a \in DOMAIN db_approvals /\ Resolvable(db_approvals[a])

\* resolve_approval: the UPDATE, then event.set() when it changed a row and
\* the registry holds an event for the id
resolve_approval(a) ==
    LET updated == Updates(a)
        event == updated /\ a \in DOMAIN events
    IN  /\ db_approvals' = IF updated
                             THEN [db_approvals EXCEPT ![a].status = "approved",
                                                       ![a].resolved_at = now + 1]
                             ELSE db_approvals
        /\ now' = IF updated THEN now + 1 ELSE now
        /\ events' = IF event THEN Signal(events, a) ELSE events
        /\ fires' = IF event THEN [fires EXCEPT ![a] = @ + 1]
                              ELSE fires

\* approve, second part: resolve_approval, 500 when it returns False, else 200
ApproveResolve(a) ==
    /\ BagIn(a, inflight)
    /\ inflight' = inflight (-) SetToBag({a})
    /\ resolve_approval(a)
    /\ Answer(a, IF Updates(a) THEN 200 ELSE 500)
    /\ UNCHANGED <<task, ex, db_tasks, gateway, published, uuids, faults, started, outside>>

\* no worker process and no dispatch call under observation
NoWorker == [pc |-> "none"]

NoCall == [pc |-> "none"]

\* no Browser Agent process is part of the run
NoAgent == [pc |-> "none"]

Init ==
    /\ task = <<>>
    /\ ex = <<>>
    /\ db_tasks = <<>>
    /\ db_approvals = <<>>
    /\ events = <<>>
    /\ inflight = EmptyBag
    /\ answers = EmptyBag
    /\ gateway = <<>>
    /\ fires = <<>>
    /\ published = {}
    /\ uuids = 0
    /\ now = 0
    /\ faults = 0
    /\ started = EmptyBag
    /\ worker = NoWorker
    /\ client = NoCall
    /\ calls = <<>>
    /\ agent = NoAgent

\* the two ingress endpoints, for the requests T and the LLM answers L
IngressOf(T, L) ==
    \/ \E t \in T, ok \in SaveOutcomes : EnqueueCreate(t, ok)
    \/ \E t \in T : ChatCreate(t)
    \/ \E t \in T, raw \in L, ok \in SaveOutcomes : PlanOk(t, raw, ok)
    \/ \E t \in T, raw \in L, ok \in SaveOutcomes : PlanFail(t, raw, ok)

Ingress == IngressOf(TaskIds, LlmOutputs)

\* the executor activities of the tasks T
ExecutorOf(T) ==
    \/ \E t \in T, ok \in SaveOutcomes : Run(t, ok)
    \/ \E t \in T, ok \in SaveOutcomes : NextStep(t, ok)
    \/ \E t \in T, ok \in SaveOutcomes : RequestApprovalInsert(t, ok)
    \/ \E t \in T, ok \in SaveOutcomes : RequestApprovalPause(t, ok)
    \/ \E t \in T, ok \in SaveOutcomes : WaitSignalled(t, ok)
    \/ \E t \in T : WaitTimeout(t)
    \/ \E t \in T, ok \in SaveOutcomes : RecordSkipped(t, ok)
    \/ \E t \in T, raises \in BOOLEAN : Dispatch(t, raises)
    \/ \E t \in T, ok \in SaveOutcomes : RecordOk(t, ok)
    \/ \E t \in T, ok \in SaveOutcomes : RecordError(t, ok)
    \/ \E t \in T, ok \in SaveOutcomes : FailNotApproved(t, ok)
    \/ \E t \in T, ok \in SaveOutcomes : FailStep(t, ok)
    \/ \E t \in T : Complete(t)
    \/ \E t \in T, raises \in BOOLEAN, ok \in SaveOutcomes : Reply(t, raises, ok)

Executor == ExecutorOf(TaskIds)

Approvals ==
    \/ \E a \in published \cup {UnknownId} : ApproveGet(a)
    \/ \E a \in published : ApproveResolve(a)

Next == Ingress \/ Executor \/ Approvals

Spec == Init /\ [][Next]_vars

\* The same program over a store whose statements always complete.  The event
\* loop runs every ready coroutine and fires every timer, so an executor
\* activity that can take a step eventually takes one.
InitReliable ==
    /\ task = <<>>
    /\ ex = <<>>
    /\ db_tasks = <<>>
    /\ db_approvals = <<>>
    /\ events = <<>>
    /\ inflight = EmptyBag
    /\ answers = EmptyBag
    /\ gateway = <<>>
    /\ fires = <<>>
    /\ published = {}
    /\ uuids = 0
    /\ now = 0
    /\ faults = MaxStoreFaults
    /\ started = EmptyBag
    /\ worker = NoWorker
    /\ client = NoCall
    /\ calls = <<>>
    /\ agent = NoAgent

SpecLive == InitReliable /\ [][Next]_vars /\ WF_vars(Executor)

\* Two ingress requests and their executor activities side by side, over a
\* store whose statements complete; the LLM answers with plans of one step.
PairOutputs == {raw \in LlmOutputs : Len(raw.steps) <= 1}

NextPair == IngressOf(PairIds, PairOutputs) \/ ExecutorOf(PairIds) \/ Approvals

SpecPair == InitReliable /\ [][NextPair]_vars

\* no request, no task, no approval
Idle ==
    /\ task = <<>>
    /\ ex = <<>>
    /\ db_tasks = <<>>
    /\ db_approvals = <<>>
    /\ events = <<>>
    /\ inflight = EmptyBag
    /\ answers = EmptyBag
    /\ gateway = <<>>
    /\ fires = <<>>
    /\ published = {}
    /\ uuids = 0
    /\ now = 0
    /\ faults = 0
    /\ started = EmptyBag

\* ===================================================== process restart
RestartKeepsEvents(evs) == evs

\* a new process: PostgreSQLStore.__init__ leaves _approval_events empty
Restarted(evs) == <<>>

\* The process ends and a new one starts.  The tables stay; the event
\* registry, the executor activities and the requests in progress are gone.
\* (The TaskRecord objects are gone as well: `task` keeps their last value
\* and nothing reads it after this step.)
Restart ==
    /\ \E t \in DOMAIN ex : ex[t].pc # "lost"
    /\ ex' = [t \in DOMAIN ex |-> [ex[t] EXCEPT !.pc = "lost", !.approval = NoId]]
    /\ events' = Restarted(events)
    /\ inflight' = EmptyBag
    /\ UNCHANGED <<task, db_tasks, db_approvals, answers, gateway, fires, published, uuids, now,
                   faults, started, outside>>

NextRestart == Next \/ Restart

SpecRestart == InitReliable /\ [][NextRestart]_vars

\* ======================================================= the store alone
\* approval ids a caller of the store may use
StoreIds == {1, 2}

\* save_approval(approval), called with any id: the INSERT and the event
Store_save_approval(a, approval) ==
    /\ Len(calls) < MaxStoreCalls
    /\ db_approvals' = InsertApproval(db_approvals, a, approval)
    /\ events' = EnsureEvent(events, a)
    /\ fires' = IF a \in DOMAIN fires THEN fires ELSE Put(fires, a, 0)
    /\ calls' = Append(calls, <<"save_approval", a>>)
    /\ UNCHANGED <<task, ex, db_tasks, inflight, answers, gateway, published, uuids, now, faults,
                   started, worker, client, agent>>

\* resolve_approval(approval_id), called with any id
Store_resolve_approval(a) ==
    /\ Len(calls) < MaxStoreCalls
    /\ resolve_approval(a)
    /\ calls' = Append(calls, <<"resolve_approval", a>>)
    /\ UNCHANGED <<task, ex, db_tasks, inflight, answers, gateway, published, uuids, faults,
                   started, worker, client, agent>>

InitStore ==
    /\ Idle
    /\ worker = NoWorker
    /\ client = NoCall
    /\ calls = <<>>
    /\ agent = NoAgent

NextStore ==
    \/ \E a \in StoreIds, t \in PairIds, i \in 0..(MaxSteps - 1) :
            Store_save_approval(a, ApprovalRecord(t, i))
    \/ \E a \in StoreIds : Store_resolve_approval(a)

SpecStore == InitStore /\ [][NextStore]_vars

\* ============================================== BrowserClient.dispatch
\* dispatch_map with the client method behind each entry: the HTTP method and
\* path of the request, the keys the lambda reads from args, and the keys of
\* the JSON body
dispatch_map ==
    [a \in {"open", "navigate", "snapshot", "click", "type", "extract", "screenshot", "close"} |->
        CASE a = "open"       -> [method |-> "POST", path |-> "/v1/browser/open",
                                  reads |-> {"url"}, body |-> {"url"}]
          [] a = "navigate"   -> [method |-> "POST", path |-> "/v1/browser/navigate",
                                  reads |-> {"url"}, body |-> {"url"}]
          [] a = "snapshot"   -> [method |-> "GET", path |-> "/v1/browser/snapshot",
                                  reads |-> {}, body |-> {}]
          [] a = "click"      -> [method |-> "POST", path |-> "/v1/browser/click",
                                  reads |-> {"element_id"}, body |-> {"element_id"}]
          [] a = "type"       -> [method |-> "POST", path |-> "/v1/browser/type",
                                  reads |-> {"element_id", "text"},
                                  body |-> {"element_id", "text"}]
          [] a = "extract"    -> [method |-> "POST", path |-> "/v1/browser/extract",
                                  reads |-> {"selector"}, body |-> {"selector"}]
          [] a = "screenshot" -> [method |-> "GET", path |-> "/v1/browser/screenshot",
                                  reads |-> {}, body |-> {}]
          [] a = "close"      -> [method |-> "POST", path |-> "/v1/browser/close",
                                  reads |-> {}, body |-> {}]]

\* the action names a caller may pass: the mapped ones, an unmapped one, and
\* the empty name that "browser".partition(".") yields
ActionNames == DOMAIN dispatch_map \cup {"scroll", ""}

\* args, by the keys it holds
ArgKeys == {"url", "element_id", "text", "selector"}

None == [method |-> "none", path |-> "none", reads |-> {}, body |-> {}]

handlerGeneric(action) ==
    [method |-> "POST", path |-> "/v1/browser/generic", reads |-> {}, body |-> {}]

\* dispatch_map.get(action)
handler(action) == IF action \in DOMAIN dispatch_map THEN dispatch_map[action] ELSE None

\* dispatch up to its await: ValueError for an unmapped action, KeyError from
\* the lambda when args lacks a key it reads, else the request goes out
ClientDispatch ==
    /\ client.pc = "called"
    /\ LET h == handler(client.action) IN
         client' =
            IF h = None THEN [client EXCEPT !.pc = "raised", !.exc = "ValueError"]
            ELSE IF ~(h.reads \subseteq client.args)
              THEN [client EXCEPT !.pc = "raised", !.exc = "KeyError"]
            ELSE [client EXCEPT !.pc = "sent",
                                !.sent = Append(@, [method |-> h.method, path |-> h.path,
                                                    body |-> h.body])]
    /\ UNCHANGED <<task, ex, db_tasks, db_approvals, events, inflight, answers, gateway, fires,
                   published, uuids, now, faults, started, worker, calls, agent>>

\* what the awaited request can end in: a 2xx answer whose body is JSON, a
\* transport error raised by the client, a non-2xx answer (raise_for_status),
\* or a 2xx answer whose body response.json() cannot parse
Outcomes == {"json", "TransportError", "HTTPStatusError", "JSONDecodeError"}

\* the Browser Agent's endpoints: the method each path is routed for and the
\* fields of its request model that have no default
routes ==
    [p \in {"/v1/browser/open", "/v1/browser/navigate", "/v1/browser/snapshot",
            "/v1/browser/click", "/v1/browser/type", "/v1/browser/extract",
            "/v1/browser/screenshot", "/v1/browser/close"} |->
        CASE p = "/v1/browser/open"       -> [method |-> "POST", fields |-> {"url"}]
          [] p = "/v1/browser/navigate"   -> [method |-> "POST", fields |-> {"url"}]
          [] p = "/v1/browser/snapshot"   -> [method |-> "GET", fields |-> {}]
          [] p = "/v1/browser/click"      -> [method |-> "POST", fields |-> {"selector"}]
          [] p = "/v1/browser/type"       -> [method |-> "POST", fields |-> {"selector", "text"}]
          [] p = "/v1/browser/extract"    -> [method |-> "POST", fields |-> {}]
          [] p = "/v1/browser/screenshot" -> [method |-> "GET", fields |-> {}]
          [] p = "/v1/browser/close"      -> [method |-> "POST", fields |-> {}]]

\* the agent routes the request and its body passes the request model;
\* otherwise the agent answers 404, 405 or 422
Conforms(request) ==
    /\ request.path \in DOMAIN routes
    /\ routes[request.path].method = request.method
    /\ routes[request.path].fields \subseteq request.body

\* _post / _get after the await; a 2xx answer needs a request the agent takes
ClientAnswer(outcome) ==
    /\ client.pc = "sent"
    /\ outcome = "json" => Conforms(client.sent[Len(client.sent)])
    /\ client' = IF outcome = "json" THEN [client EXCEPT !.pc = "returned"]
                 ELSE [client EXCEPT !.pc = "raised", !.exc = outcome]
    /\ UNCHANGED <<task, ex, db_tasks, db_approvals, events, inflight, answers, gateway, fires,
                   published, uuids, now, faults, started, worker, calls, agent>>

\* the exception classes `except ValueError` takes: json.JSONDecodeError is a
\* subclass of ValueError
ValueErrors == {"ValueError", "JSONDecodeError"}

\* browser_proxy after its await of dispatch: 400 for a ValueError, 502 for
\* any other exception, else the dict {action, result}
browser_proxy ==
    /\ client.pc \in {"returned", "raised"}
    /\ client.http = 0
    /\ client' = [client EXCEPT !.http = IF client.pc = "returned" THEN 200
                                         ELSE IF client.exc \in ValueErrors THEN 400
                                         ELSE 502]
    /\ UNCHANGED <<task, ex, db_tasks, db_approvals, events, inflight, answers, gateway, fires,
                   published, uuids, now, faults, started, worker, calls, agent>>

\* one dispatch call, for every action name and every set of argument keys
InitClient ==
    /\ Idle
    /\ worker = NoWorker
    /\ calls = <<>>
    /\ agent = NoAgent
    /\ client \in [pc : {"called"}, action : ActionNames, args : SUBSET ArgKeys,
                    sent : {<<>>}, exc : {"none"}, http : {0}]

NextClient ==
    \/ ClientDispatch
    \/ \E outcome \in Outcomes : ClientAnswer(outcome)
    \/ browser_proxy

SpecClient == InitClient /\ [][NextClient]_vars

\* ====================================================== periodic worker
\* WorkerSettings.max_tries
max_tries == 3

\* WorkerSettings.retry_jobs
retry_jobs == TRUE

\* WorkerSettings.functions
functions == {"health_check", "daily_briefing", "browser_task", "summarize_memory"}

\* the HTTP calls a job function makes, in order
endpoints(job) ==
    IF job = "health_check" THEN <<"api-core", "browser-agent", "llm-runtime">>
    ELSE <<"api-core">>

\* the path a job function calls on a service
url(job, service) ==
    IF job = "daily_briefing" THEN "/v1/chat"
    ELSE IF job = "browser_task" THEN "/v1/tasks/enqueue"
    ELSE IF job = "summarize_memory" THEN "/v1/memory/summarize"
    ELSE IF service = "llm-runtime" THEN "/api/tags"
    ELSE "/health"

\* the JSON bodies a job function may send, as their sets of keys; the
\* GET of health_check has none
payload(job) ==
    IF job = "daily_briefing" THEN {{"messages"}}
    ELSE IF job = "browser_task" THEN {{"type", "payload"}}
    ELSE IF job = "summarize_memory" THEN {{}, {"session_id"}}
    ELSE {{}}

\* ChatRequest and TaskEnqueueRequest: the fields without a default, by the
\* path of the api-core endpoint that takes the model
required == [p \in {"/v1/chat", "/v1/tasks/enqueue"} |-> {"message"}]

\* the paths the called services route without a request model
routed == {"/health", "/api/tags"}

\* the statuses a service that is up can answer a request with: 422 when the
\* body lacks a required field, 404 for a path it does not route; an
\* accepted ingress request answers 200 (chat), 202 (enqueue) or 502 (planner)
Responses(path, body) ==
    IF path \in DOMAIN required
    THEN IF required[path] \subseteq body
         THEN {IF path = "/v1/chat" THEN 200 ELSE 202, 502}
         ELSE {422}
    ELSE IF path \in routed THEN {200, 503}
    ELSE {404}

\* an ingress request that passed validation made a TaskRecord
Creates(path, body) == path \in DOMAIN required /\ required[path] \subseteq body

\* Python's range(start, stop, step) for a positive step, as a set
RECURSIVE range(_, _, _)
range(start, stop, step) ==
    IF start >= stop THEN {} ELSE {start} \cup range(start + step, stop, step)

_health_check_minutes_AnyPositive(n) ==
    LET m == IF n <= 0 THEN 5 ELSE n
    IN  range(0, 60, m)

\* _health_check_minutes: `if n <= 0 or 60 % n != 0: n = 5`, then
\* set(range(0, 60, n)); the `or` does not evaluate 60 % n when n <= 0
_health_check_minutes(n) ==
    LET m == IF n <= 0 THEN 5 ELSE IF 60 % n # 0 THEN 5 ELSE n
    IN  range(0, 60, m)

\* values of settings.health_check_every_n_minutes
NValues == (0 - MaxN)..MaxN

NoJob == "none"

\* the class body of WorkerSettings runs when the module is imported
WorkerSettings ==
    /\ worker.pc = "import"
    /\ worker' = [worker EXCEPT !.pc = "idle", !.minutes = _health_check_minutes(worker.n)]
    /\ UNCHANGED <<task, ex, db_tasks, db_approvals, events, inflight, answers, gateway, fires,
                   published, uuids, now, faults, started, client, calls, agent>>

\* a cron time comes, or a client enqueues one of the functions
EnqueueJob(job) ==
    /\ worker.pc \in {"idle", "done"}
    /\ worker' = [worker EXCEPT !.pc = "queued", !.job = job, !.job_try = 0, !.attempts = 0,
                                !.left = <<>>, !.failed = FALSE, !.seen = <<>>,
                                !.sent = <<>>, !.created = FALSE, !.result = "none"]
    /\ UNCHANGED <<task, ex, db_tasks, db_approvals, events, inflight, answers, gateway, fires,
                   published, uuids, now, faults, started, client, calls, agent>>

\* the worker takes the job: job_try counts the times it was taken, and a
\* job taken more than max_tries times is given up without being run
StartJob ==
    /\ worker.pc = "queued"
    /\ worker' = IF worker.job_try + 1 > max_tries
                 THEN [worker EXCEPT !.pc = "done", !.job_try = @ + 1, !.result = "aborted"]
                 ELSE [worker EXCEPT !.pc = "running", !.job_try = @ + 1,
                                     !.attempts = @ + 1, !.failed = FALSE, !.seen = <<>>,
                                     !.sent = <<>>,
                                     !.left = endpoints(worker.job)]
    /\ UNCHANGED <<task, ex, db_tasks, db_approvals, events, inflight, answers, gateway, fires,
                   published, uuids, now, faults, started, client, calls, agent>>

\* the job function's HTTP call answers with a status, which the function
\* puts in the dict it returns
CallAnswers(status, body) ==
    /\ worker.pc = "running"
    /\ worker.left # <<>>
    /\ body \in payload(worker.job)
    /\ LET path == url(worker.job, Head(worker.left))
       IN  /\ status \in Responses(path, body)
           /\ worker' = [worker EXCEPT !.left = Tail(@), !.failed = @ \/ status >= 300,
                                       !.seen = Append(@, status),
                                       !.sent = Append(@, [path |-> path, body |-> body]),
                                       !.created = @ \/ Creates(path, body)]
    /\ UNCHANGED <<task, ex, db_tasks, db_approvals, events, inflight, answers, gateway, fires,
                   published, uuids, now, faults, started, client, calls, agent>>

\* the job function's HTTP call raises: `except Exception` takes it, the
\* function logs it and goes on to return a dict
CallRaises(body) ==
    /\ worker.pc = "running"
    /\ worker.left # <<>>
    /\ body \in payload(worker.job)
    /\ LET path == url(worker.job, Head(worker.left))
       IN  worker' = [worker EXCEPT !.left = Tail(@), !.failed = TRUE,
                                   !.seen = Append(@, "error"),
                                   !.sent = Append(@, [path |-> path, body |-> body])]
    /\ UNCHANGED <<task, ex, db_tasks, db_approvals, events, inflight, answers, gateway, fires,
                   published, uuids, now, faults, started, client, calls, agent>>

\* the job function returns its dict: the job is complete
JobReturns ==
    /\ worker.pc = "running"
    /\ worker.left = <<>>
    /\ worker' = [worker EXCEPT !.pc = "done", !.result = "complete"]
    /\ UNCHANGED <<task, ex, db_tasks, db_approvals, events, inflight, answers, gateway, fires,
                   published, uuids, now, faults, started, client, calls, agent>>

\* the worker is shut down while the job function waits for its call:
\* CancelledError is not an Exception, so it leaves the function, and with
\* retry_jobs the job stays queued for the next worker
JobCancelled ==
    /\ worker.pc = "running"
    /\ worker.left # <<>>
    /\ worker' = IF retry_jobs
                 THEN [worker EXCEPT !.pc = "queued", !.left = <<>>]
                 ELSE [worker EXCEPT !.pc = "done", !.left = <<>>, !.result = "cancelled"]
    /\ UNCHANGED <<task, ex, db_tasks, db_approvals, events, inflight, answers, gateway, fires,
                   published, uuids, now, faults, started, client, calls, agent>>

InitWorker ==
    /\ Idle
    /\ client = NoCall
    /\ calls = <<>>
    /\ agent = NoAgent
    /\ worker \in [pc : {"import"}, n : NValues, minutes : {{}}, job : {NoJob}, job_try : {0},
                   attempts : {0}, left : {<<>>}, failed : {FALSE}, seen : {<<>>},
                   sent : {<<>>}, created : {FALSE}, result : {"none"}]

NextWorker ==
    \/ WorkerSettings
    \/ \E job \in functions : EnqueueJob(job)
    \/ StartJob
    \/ \E status \in {200, 202, 404, 422, 502, 503} :
            \E body \in SUBSET {"messages", "type", "payload", "session_id"} :
                CallAnswers(status, body)
    \/ \E body \in SUBSET {"messages", "type", "payload", "session_id"} : CallRaises(body)
    \/ JobReturns
    \/ JobCancelled

SpecWorker == InitWorker /\ [][NextWorker]_vars

\* ========================================================= browser agent
lower_Unchanged(w) == w

\* Strings are sequences of words.  str.lower():
lower(w) == IF w = "Pay" THEN "pay" ELSE IF w = "Checkout" THEN "checkout" ELSE w

\* s.lower() for a string s
Lowered(s) == [k \in 1..Len(s) |-> lower(s[k])]

\* `kw in haystack`
Contains(haystack, kw) ==
    \E k \in 1..(Len(haystack) - Len(kw) + 1) : SubSeq(haystack, k, k + Len(kw) - 1) = kw

\* settings.stop_keywords: two of the configured keywords, lower-cased
stop_keywords == {<<"checkout">>, <<"pay", "now">>}

\* no element text: inner_text raised, or the element has none
NoText == <<>>

\* check_stop_point raises StopPointError: not forced, and a keyword is in
\* " ".join(filter(None, [selector, element_text])).lower()
check_stop_point(selector, element_text, force) ==
    /\ ~force
    /\ \E kw \in stop_keywords : Contains(Lowered(selector \o element_text), kw)

check_max_steps_Beyond(task_id, step_count) == step_count > agent.max_steps_per_task

\* check_max_steps raises SecurityError(kind="max_steps_exceeded")
check_max_steps(task_id, step_count) == step_count >= agent.max_steps_per_task

\* no task id: None
NoTask == "None"

\* the task ids an open request may carry
AgentTasks == {"t1"}

\* _increment_step: the counters after it ...
_increment_step(a) ==
    IF a.current_task_id # NoTask
      THEN [a.step_counts EXCEPT ![a.current_task_id] = @ + 1]
      ELSE a.step_counts

\* ... and the count it returns
Count_increment_step(a) ==
    IF a.current_task_id # NoTask THEN a.step_counts[a.current_task_id] + 1 ELSE 0

\* the selectors and the element texts of the requests and pages
Selectors == {<<"ok">>, <<"Checkout">>, <<"pay">>}

Texts == {NoText, <<"now">>, <<"Pay", "now">>}

\* history: what the last request was and how it ended
Last(action, status, performed, selector, text, force, count) ==
    [action |-> action, status |-> status, performed |-> performed, selector |-> selector,
     text |-> text, force |-> force, task_id |-> agent.current_task_id, count |-> count]

\* keeps the counters of the model finite: no request is counted for a task
\* id that is MaxOver requests beyond its limit
Countable ==
    agent.current_task_id # NoTask =>
        agent.step_counts[agent.current_task_id] < agent.max_steps_per_task + MaxOver

Others ==
    UNCHANGED <<task, ex, db_tasks, db_approvals, events, inflight, answers, gateway, fires,
                published, uuids, now, faults, started, worker, client, calls>>

\* POST /v1/browser/open: check_domain (403), then the page, then the task
\* id of the request if it has one, then goto
open_browser(task_id, allowed, fails) ==
    /\ agent.pc = "up"
    /\ agent' =
         IF ~allowed
           THEN [agent EXCEPT !.last = Last("open", 403, FALSE, <<>>, NoText, FALSE, 0)]
           ELSE [agent EXCEPT
                   !.open = TRUE,
                   !.current_task_id = IF task_id # NoTask THEN task_id ELSE @,
                   !.step_counts = IF task_id # NoTask /\ task_id \notin DOMAIN @
                                     THEN Put(@, task_id, 0) ELSE @,
                   !.last = [Last("open", IF fails THEN 500 ELSE 200, ~fails, <<>>, NoText,
                                  FALSE, 0)
                             EXCEPT !.task_id = IF task_id # NoTask THEN task_id
                                                ELSE agent.current_task_id]]
    /\ Others

\* POST /v1/browser/navigate: check_domain (403), _ensure_open (409),
\* _increment_step, check_max_steps (429), goto
navigate(allowed, fails) ==
    /\ agent.pc = "up"
    /\ Countable
    /\ agent' =
         IF ~allowed
           THEN [agent EXCEPT !.last = Last("navigate", 403, FALSE, <<>>, NoText, FALSE, 0)]
         ELSE IF ~agent.open
           THEN [agent EXCEPT !.last = Last("navigate", 409, FALSE, <<>>, NoText, FALSE, 0)]
         ELSE LET count == Count_increment_step(agent)
                  stops == check_max_steps(agent.current_task_id, count)
                  goes == ~stops /\ ~fails
              IN  [agent EXCEPT
                     !.step_counts = _increment_step(agent),
                     !.done = IF goes /\ agent.current_task_id # NoTask
                                THEN [@ EXCEPT ![agent.current_task_id] = @ + 1] ELSE @,
                     !.last = Last("navigate", IF stops THEN 429 ELSE IF fails THEN 500 ELSE 200,
                                   goes, <<>>, NoText, FALSE, count)]
    /\ Others

\* POST /v1/browser/click: _ensure_open (409), _increment_step,
\* check_max_steps (429), inner_text (its failure is passed over),
\* check_stop_point (423), click (400 when it raises)
click(selector, text, resolved, force, fails) ==
    /\ agent.pc = "up"
    /\ Countable
    /\ agent' =
         IF ~agent.open
           THEN [agent EXCEPT !.last = Last("click", 409, FALSE, selector, NoText, force, 0)]
         ELSE LET count == Count_increment_step(agent)
                  stops == check_max_steps(agent.current_task_id, count)
                  element_text == IF resolved THEN text ELSE NoText
                  refused == ~stops /\ check_stop_point(selector, element_text, force)
                  goes == ~stops /\ ~refused /\ ~fails
              IN  [agent EXCEPT
                     !.step_counts = _increment_step(agent),
                     !.done = IF goes /\ agent.current_task_id # NoTask
                                THEN [@ EXCEPT ![agent.current_task_id] = @ + 1] ELSE @,
                     !.last = Last("click",
                                   IF stops THEN 429 ELSE IF refused THEN 423
                                   ELSE IF fails THEN 400 ELSE 200,
                                   goes, selector, element_text, force, count)]
    /\ Others

\* POST /v1/browser/type: _ensure_open (409), _increment_step,
\* check_max_steps (429), clear and type (400 when they raise)
type_text(fails) ==
    /\ agent.pc = "up"
    /\ Countable
    /\ agent' =
         IF ~agent.open
           THEN [agent EXCEPT !.last = Last("type", 409, FALSE, <<>>, NoText, FALSE, 0)]
         ELSE LET count == Count_increment_step(agent)
                  stops == check_max_steps(agent.current_task_id, count)
                  goes == ~stops /\ ~fails
              IN  [agent EXCEPT
                     !.step_counts = _increment_step(agent),
                     !.done = IF goes /\ agent.current_task_id # NoTask
                                THEN [@ EXCEPT ![agent.current_task_id] = @ + 1] ELSE @,
                     !.last = Last("type", IF stops THEN 429 ELSE IF fails THEN 400 ELSE 200,
                                   goes, <<>>, NoText, FALSE, count)]
    /\ Others

\* GET snapshot, POST extract, GET screenshot: _ensure_open (409), then the
\* page is read; nothing is counted
read_page(action) ==
    /\ agent.pc = "up"
    /\ agent' = [agent EXCEPT !.last = Last(action, IF agent.open THEN 200 ELSE 409, agent.open,
                                            <<>>, NoText, FALSE, 0)]
    /\ Others

\* POST /v1/browser/close: the context is closed and the task id forgotten;
\* the counters stay
close_browser ==
    /\ agent.pc = "up"
    /\ agent' = IF ~agent.open
                  THEN [agent EXCEPT !.last = Last("close", 200, FALSE, <<>>, NoText, FALSE, 0)]
                  ELSE [agent EXCEPT !.open = FALSE, !.current_task_id = NoTask,
                                     !.last = Last("close", 200, TRUE, <<>>, NoText, FALSE, 0)]
    /\ Others

\* BrowserManager.__init__, for every positive MAX_STEPS_PER_TASK
InitAgent ==
    /\ Idle
    /\ worker = NoWorker
    /\ client = NoCall
    /\ calls = <<>>
    /\ agent \in [pc : {"up"}, max_steps_per_task : 1..MaxLimit, open : {FALSE},
                   current_task_id : {NoTask}, step_counts : {<<>>},
                   done : {[t \in AgentTasks |-> 0]},
                   last : {[action |-> "none", status |-> 0, performed |-> FALSE,
                            selector |-> <<>>, text |-> NoText, force |-> FALSE,
                            task_id |-> NoTask, count |-> 0]}]

NextAgent ==
    \/ \E task_id \in AgentTasks \cup {NoTask}, allowed, fails \in BOOLEAN :
            open_browser(task_id, allowed, fails)
    \/ \E allowed, fails \in BOOLEAN : navigate(allowed, fails)
    \/ \E selector \in Selectors, text \in Texts, resolved, force, fails \in BOOLEAN :
            click(selector, text, resolved, force, fails)
    \/ \E fails \in BOOLEAN : type_text(fails)
    \/ \E action \in {"snapshot", "extract", "screenshot"} : read_page(action)
    \/ close_browser

SpecAgent == InitAgent /\ [][NextAgent]_vars

\* ================================================================ claims
Tasks == DOMAIN task

\* the two views of a task: the TaskRecord the executor holds, and what
\* get_task reads back from the row
Views(t) == {task[t]} \cup (IF t \in DOMAIN db_tasks THEN {_row_to_task(db_tasks[t])} ELSE {})

Approved(a) == a \in DOMAIN db_approvals /\ db_approvals[a].status = "approved"

\* C1: a step with needs_ok is handed to the browser gateway only after an
\* Approval of that task and step index exists and is approved.
C1_DispatchOnlyApproved ==
    \A t \in Tasks : \A k \in 1..Len(gateway[t]) :
        LET i == gateway[t][k] IN
        task[t].plan[i + 1].needs_ok =>
            \E a \in DOMAIN db_approvals :
                /\ db_approvals[a].task_id = t
                /\ db_approvals[a].step_index = i
                /\ Approved(a)

C1_Witness ==
    \E t \in Tasks : \E k \in 1..Len(gateway[t]) : task[t].plan[gateway[t][k] + 1].needs_ok

\* C2: whenever the status of a task, as get_task returns it, is not
\* paused_for_approval, its pending_approval_id is None.
C2_PendingIdOnlyWhilePaused ==
    \A t \in DOMAIN db_tasks :
        LET v == _row_to_task(db_tasks[t]) IN
        v.status # "paused_for_approval" => v.pending_approval_id = NoId

C4_ResultsIndexed ==
    \A t \in DOMAIN db_tasks :
        LET v == _row_to_task(db_tasks[t]) IN
        /\ Len(v.results) <= Len(v.plan)
        /\ \A i \in 1..Len(v.results) : v.results[i].step_index = i - 1

\* C5: whenever a task's status is completed, it has one result per plan
\* step and every result is ok.
C5_CompletedAllOk ==
    \A t \in Tasks : \A v \in Views(t) :
        v.status = "completed" =>
            /\ Len(v.results) = Len(v.plan)
            /\ \A i \in 1..Len(v.results) : v.results[i].status = "ok"

C5_Witness ==
    \E t \in Tasks :
        /\ t \in DOMAIN db_tasks /\ db_tasks[t].status = "done"
        /\ Len(db_tasks[t].results) = MaxSteps

\* C6: whenever a task's status is failed, some result is an error, or the
\* approval timed out and some result is skipped, or planning failed and the
\* task has no plan and an error.
C6_FailedHasCause ==
    \A t \in Tasks : \A v \in Views(t) :
        v.status = "failed" =>
            \/ \E i \in 1..Len(v.results) : v.results[i].status = "error"
            \/ /\ v.error[1] = "approval"
               /\ \E i \in 1..Len(v.results) : v.results[i].status = "skipped"
            \/ v.plan = NoPlan /\ v.error # NoError

C6_Witness ==
    \E t \in Tasks :
        /\ t \in DOMAIN db_tasks /\ db_tasks[t].status = "failed"
        /\ db_tasks[t].plan = NoPlan
        /\ task[t].status = "failed"

\* ---- approve requests, per approval id
Count(a, code) == CopiesIn(<<a, code>>, answers)

\* C7: of the resolve_approval calls on one approval id exactly one returns
\* true and sets the signal, the signal is set at most once, and a call that
\* returns false changes neither the approval row nor the signal.
\* (approve answers 200 exactly when resolve_approval returned true and 500
\* exactly when it returned false.)
C7_OneResolveWins ==
    \A a \in DOMAIN db_approvals :
        /\ Count(a, 200) <= 1
        /\ Count(a, 200) + Count(a, 500) >= 1 => Count(a, 200) = 1
        /\ Approved(a) <=> Count(a, 200) = 1
        /\ a \in DOMAIN fires => fires[a] = Count(a, 200)

\* C7, the calls that return false: the step in which resolve_approval
\* returns false for a leaves the approvals table and the events as they were.
C7_FalseChangesNothing ==
    \A a \in DOMAIN db_approvals :
        CopiesIn(<<a, 500>>, answers') > Count(a, 500) =>
            /\ db_approvals' = db_approvals
            /\ events' = events
            /\ fires' = fires

\* C7: the invariant and the step property above, together.
C7_ResolveOnce == [](C7_OneResolveWins) /\ [][C7_FalseChangesNothing]_vars

C7_Witness ==
    \E a \in DOMAIN db_approvals : Count(a, 200) = 1 /\ Count(a, 500) = 1

\* C8: approve answers 404 for an unknown id, 200 for an unresolved approval
\* and 409 for a resolved one; of the requests for one approval exactly one
\* gets 200 and every other gets 409.
C8_ApproveAnswers ==
    \A e \in BagToSet(answers) :
        /\ e[2] \in {200, 404, 409}
        /\ e[2] = 404 <=> e[1] \notin DOMAIN db_approvals
        /\ Count(e[1], 200) <= 1
        /\ e[2] = 409 => Count(e[1], 200) = 1

\* C9 as stated: the ingress endpoints and the approval endpoint never write
\* a task status other than the initial pending.
StatusWritten(t) ==
    (IF t \in DOMAIN task' /\ (t \notin DOMAIN task \/ task'[t].status # task[t].status)
       THEN {task'[t].status} ELSE {})
    \cup
    (IF t \in DOMAIN db_tasks' /\ (t \notin DOMAIN db_tasks \/ db_tasks'[t] # db_tasks[t])
       THEN {_STATUS_FROM_DB(db_tasks'[t].status)} ELSE {})

C9_OnlyPendingOutsideExecutor ==
    [][(Ingress \/ Approvals) => \A t \in TaskIds : StatusWritten(t) \subseteq {"pending"}]_vars

\* C9 amended: outside the Executor a task status is written only by ingress:
\* the initial pending, and failed when planning failed (the task then has no
\* plan and no executor is started); never running, paused_for_approval or
\* completed, and the approval endpoint writes no task at all.
C9_IngressWritesPendingOrPlannerFailed ==
    [][/\ Ingress => \A t \in TaskIds :
                        \/ StatusWritten(t) \subseteq {"pending"}
                        \/ /\ StatusWritten(t) = {"failed"}
                           /\ At(t, "plan")
                           /\ task'[t].plan = NoPlan
                           /\ ex'[t].pc \in {"rejected", "crashed"}
       /\ Approvals => task' = task /\ db_tasks' = db_tasks]_vars

C9_Witness ==
    \E t \in Tasks :
        /\ ex[t].pc = "rejected"
        /\ task[t].status = "failed"
        /\ ex[t].via = "enqueue" => db_tasks[t].status = "failed"

\* C10: once the Executor has started on a task, its status moves only along
\* pending -> running, running <-> paused_for_approval, running -> completed,
\* {running, paused_for_approval} -> failed; and once the task is persisted
\* as completed or failed, its status, results and error never change.
Edges ==
    {<<"pending", "running">>, <<"running", "paused_for_approval">>,
     <<"paused_for_approval", "running">>, <<"running", "completed">>,
     <<"running", "failed">>, <<"paused_for_approval", "failed">>}

Terminal == {"completed", "failed"}

C10_Step(t) ==
    /\ (ex[t].pc # "plan" /\ task'[t].status # task[t].status)
          => <<task[t].status, task'[t].status>> \in Edges
    /\ (ex[t].pc # "plan" /\ t \in DOMAIN db_tasks
            /\ db_tasks'[t].status # db_tasks[t].status)
          => <<_STATUS_FROM_DB(db_tasks[t].status), _STATUS_FROM_DB(db_tasks'[t].status)>>
                \in Edges
    /\ (ex[t].pc # "plan" /\ task[t].status \in Terminal)
          => /\ task'[t].status = task[t].status
             /\ task'[t].results = task[t].results
             /\ task'[t].error = task[t].error
    /\ (t \in DOMAIN db_tasks /\ _STATUS_FROM_DB(db_tasks[t].status) \in Terminal)
          => /\ db_tasks'[t] = db_tasks[t]
             /\ task'[t].status = task[t].status
             /\ task'[t].results = task[t].results
             /\ task'[t].error = task[t].error

\* C10: every step of every task follows the status graph and leaves a
\* persisted terminal task unchanged.
C10_StatusGraph == [][\A t \in Tasks : C10_Step(t)]_vars

C10_Witness ==
    \E t \in Tasks : \E a \in DOMAIN db_approvals :
        /\ t \in DOMAIN db_tasks /\ db_tasks[t].status = "failed"
        /\ db_approvals[a].task_id = t
        /\ Approved(a)

\* ---- the executor's record of one task
\* the step indexes handed to the browser gateway so far
Dispatched(t) == {gateway[t][k] : k \in 1..Len(gateway[t])}

\* the approval wait of the current step ended by timeout
TimedOut(t) == ex[t].approved = "False"

\* _dispatch raised for the current step
DispatchRaised(t) == ex[t].exc \in {"gateway", "service"}

Persisted(t) == t \in DOMAIN db_tasks /\ db_tasks[t] = TaskRow(task[t])

\* C11: when the approval wait for step i ends by timeout, the executor
\* appends exactly one result for step i, skipped and with an error text,
\* then sets the task failed with a task-level error, persists it and
\* returns; step i and every later step are never handed to the gateway.
C11_TimeoutSkipsAndFails ==
    \A t \in Tasks :
        TimedOut(t) =>
            LET i == ex[t].idx
                rs == task[t].results
                mine == {k \in 1..Len(rs) : rs[k].step_index = i}
            IN  /\ ex[t].pc \in {"skipped", "fail_approval", "returned", "crashed"}
                /\ \A j \in Dispatched(t) : j < i
                /\ ex[t].pc = "skipped" => mine = {}
                /\ ex[t].pc # "skipped" =>
                      /\ mine = {Len(rs)}
                      /\ rs[Len(rs)].status = "skipped"
                      /\ rs[Len(rs)].error # NoError
                /\ ex[t].pc = "returned" =>
                      /\ task[t].status = "failed"
                      /\ task[t].error = <<"approval", i>>
                      /\ Persisted(t)
                      /\ get_task(t).status = "failed"
                      /\ get_task(t).error # NoError

C11_Witness ==
    \E t \in Tasks :
        /\ TimedOut(t)
        /\ ex[t].pc = "returned"
        /\ ex[t].idx = 1

\* C12: when the dispatch of step i raises, the executor appends one result
\* at index i with status error and the exception's message, sets the task
\* failed with an error naming step i and its tool, persists and returns;
\* the results before it are all ok, so len(results) = i + 1, and no later
\* step is ever dispatched.
C12_StepErrorFails ==
    \A t \in Tasks :
        DispatchRaised(t) =>
            LET i == ex[t].idx
                rs == task[t].results
            IN  /\ ex[t].pc \in {"record_error", "fail_step", "returned", "crashed"}
                /\ \A j \in Dispatched(t) : j <= i
                /\ \A k \in 1..i : k <= Len(rs) /\ rs[k].status = "ok" /\ rs[k].step_index = k - 1
                /\ ex[t].pc = "record_error" => Len(rs) = i
                /\ ex[t].pc # "record_error" =>
                      /\ Len(rs) = i + 1
                      /\ rs[i + 1].step_index = i
                      /\ rs[i + 1].status = "error"
                      /\ rs[i + 1].error = <<ex[t].exc>>
                /\ ex[t].pc = "returned" =>
                      /\ task[t].status = "failed"
                      /\ task[t].error = <<"step", i, task[t].plan[i + 1].tool, ex[t].exc>>
                      /\ Persisted(t)
                      /\ get_task(t).status = "failed"

C12_Witness ==
    \E t \in Tasks :
        /\ DispatchRaised(t)
        /\ ex[t].pc = "returned"
        /\ ex[t].idx = 1
        /\ Len(task[t].results) = 2

\* C13: once every step of a task succeeded and the executor has saved the
\* completed task, get_task returns status completed together with a reply.
C13_GetTaskHasReply ==
    \A t \in Tasks :
        (ex[t].pc = "returned" /\ task[t].status = "completed") =>
            /\ t \in DOMAIN db_tasks
            /\ get_task(t).status = "completed"
            /\ get_task(t).reply # "None"

\* C14: save_task followed by get_task gives back the status, plan, results,
\* current_step and pending_approval_id that were saved, for every task value
\* the program saves; and the status mapping is one-to-one on the five
\* in-memory statuses, with _STATUS_FROM_DB its inverse.
C14_Saved(t) ==
    t \in DOMAIN db_tasks' /\ (t \notin DOMAIN db_tasks \/ db_tasks'[t] # db_tasks[t])

C14_Step ==
    /\ \A t \in TaskIds :
          C14_Saved(t) =>
              LET v == _row_to_task(db_tasks'[t])
                  m == task'[t]
              IN  /\ v.status = m.status
                  /\ v.plan = m.plan
                  /\ v.results = m.results
                  /\ v.current_step = m.current_step
                  /\ v.pending_approval_id = m.pending_approval_id
    /\ \A s1, s2 \in Statuses : _STATUS_TO_DB(s1) = _STATUS_TO_DB(s2) => s1 = s2
    /\ \A s1 \in Statuses : _STATUS_FROM_DB(_STATUS_TO_DB(s1)) = s1

\* C14: every step that writes a task row satisfies the round trip above.
C14_SaveThenGet == [][C14_Step]_vars

C14_Witness ==
    \E t \in DOMAIN db_tasks :
        /\ db_tasks[t].status = "waiting_approval"
        /\ get_task(t).pending_approval_id # NoId
        /\ get_task(t).current_step = 1
        /\ Len(get_task(t).results) = 1
        /\ get_task(t) = [task[t] EXCEPT !.reply = "None"]

C16_ChatPersists ==
    \A t \in Tasks :
        ex[t].via = "chat" =>
            /\ ex[t].pc = "plan" =>
                  t \in DOMAIN db_tasks /\ get_task(t).status = "pending"
            /\ ex[t].http = 502 =>
                  /\ t \in DOMAIN db_tasks
                  /\ get_task(t).status = "failed"
                  /\ get_task(t).error = <<"planner">>

\* C17: within a task the gateway is called in strictly increasing step
\* order, and while the approval gate or the dispatch of step i is under way
\* get_task already shows the results of the steps 0..i-1.
C17_OrderedAndPersisted ==
    \A t \in Tasks :
        /\ \A k \in 1..(Len(gateway[t]) - 1) : gateway[t][k] < gateway[t][k + 1]
        /\ ex[t].pc \in {"approval", "pause", "wait", "skipped", "dispatch",
                         "record_ok", "record_error"} =>
              /\ t \in DOMAIN db_tasks
              /\ \A j \in 0..(ex[t].idx - 1) :
                    /\ j + 1 <= Len(get_task(t).results)
                    /\ get_task(t).results[j + 1].step_index = j
                    /\ get_task(t).results[j + 1].status = "ok"

C17_Witness ==
    \E t \in Tasks :
        /\ Len(gateway[t]) = 2
        /\ gateway[t][1] = 0 /\ gateway[t][2] = 1
        /\ Len(get_task(t).results) = 1

\* C18: the executor never retries: each plan step is handed to the browser
\* gateway at most once in the life of its task.
C18_NoRetry ==
    \A t \in Tasks : \A k1, k2 \in 1..Len(gateway[t]) :
        gateway[t][k1] = gateway[t][k2] => k1 = k2

C18_Witness ==
    \E t \in Tasks :
        /\ ex[t].exc \in {"gateway", "store"}
        /\ ex[t].pc = "returned"
        /\ Len(gateway[t]) = ex[t].idx + 1

\* ---- signals
\* resolve_approval has returned true for an approval of step i of task t
Signalled(t, i) ==
    \E a \in DOMAIN db_approvals :
        /\ db_approvals[a].task_id = t
        /\ db_approvals[a].step_index = i
        /\ Count(a, 200) = 1

\* _dispatch has been called for step i of task t
DispatchCalled(t, i) ==
    \/ i \in Dispatched(t)
    \/ ex[t].idx = i /\ ex[t].exc = "service"

\* C19: signals are never lost: when resolve_approval returns true for the
\* pending approval of a step before the wait has timed out, whether or not
\* the executor is waiting yet, the executor resumes the task and dispatches
\* the step.
C19_SignalNotLost ==
    \A t \in TaskIds : \A i \in 0..(MaxSteps - 1) :
        (IF t \in Tasks THEN Signalled(t, i) /\ ~TimedOut(t) ELSE FALSE)
            ~> (IF t \in Tasks THEN DispatchCalled(t, i) ELSE FALSE)

C19_Witness ==
    \E t \in Tasks : \E a \in DOMAIN db_approvals :
        /\ Count(a, 200) = 1
        /\ events[a]
        /\ ex[t].pc = "wait" /\ ex[t].approval = a
        /\ task[t].status = "paused_for_approval"

\* C20: at every moment a task has at most one unresolved approval.
Unresolved(t) ==
    {a \in DOMAIN db_approvals :
        db_approvals[a].task_id = t /\ db_approvals[a].status = "pending"}

C20_AtMostOne == \A t \in Tasks : Cardinality(Unresolved(t)) <= 1

\* C20, the creation: a step that adds an approval of a task finds every
\* earlier approval of that task resolved.
C20_CreatedAfterResolved ==
    \A a \in DOMAIN db_approvals' \ DOMAIN db_approvals :
        \A b \in DOMAIN db_approvals :
            db_approvals[b].task_id = db_approvals'[a].task_id => Approved(b)

\* C20: the invariant and the step property above, together.
C20_OneUnresolvedApproval == [](C20_AtMostOne) /\ [][C20_CreatedAfterResolved]_vars

C20_Witness ==
    \E t \in Tasks :
        Cardinality({a \in DOMAIN db_approvals : db_approvals[a].task_id = t}) = 2

\* ---- executor activities
Starts(t) == CopiesIn(t, started)

\* C21: for every task id executor.run is scheduled at most once: exactly
\* once when the ingress request that drew the id answers 200 or 202, and
\* never otherwise.
C21_StartedAtMostOnce ==
    /\ BagToSet(started) \subseteq Tasks
    /\ \A t \in Tasks : Starts(t) = IF ex[t].http \in {200, 202} THEN 1 ELSE 0

\* C21, the steps: an activity is started only by the ingress request that
\* created the task, while it is still at its planner call; a step of the
\* approval endpoint starts none.
C21_OnlyIngressStarts ==
    /\ \A t \in DOMAIN task' :
          CopiesIn(t, started') > Starts(t) =>
              /\ At(t, "plan")
              /\ Starts(t) = 0
              /\ ex'[t].pc = "run"
              /\ \A u \in DOMAIN task' \ {t} : CopiesIn(u, started') = Starts(u)
    /\ Approvals => started' = started

\* C21: the invariant and the step property above, together.
C21_OneExecutorPerTask == [](C21_StartedAtMostOnce) /\ [][C21_OnlyIngressStarts]_vars

C21_Witness ==
    /\ DOMAIN task = PairIds
    /\ Starts(1) = 1 /\ Starts(2) = 1
    /\ ex[1].via # ex[2].via
    /\ ex[1].pc = "wait" /\ ex[2].pc = "returned"

\* ---- termination
\* the task is stored, and held by the executor, as completed or failed
Ended(t) ==
    IF t \in DOMAIN db_tasks
      THEN get_task(t).status \in Terminal /\ task[t].status = get_task(t).status
      ELSE FALSE

\* the task is stored as paused_for_approval and its approval is unresolved
PausedUnapproved(t) ==
    IF t \in DOMAIN db_tasks
      THEN /\ get_task(t).status = "paused_for_approval"
           /\ ~Approved(get_task(t).pending_approval_id)
      ELSE FALSE

FailedOrApproved(t) ==
    IF t \in DOMAIN db_tasks
      THEN \/ get_task(t).status = "failed"
           \/ Approved(get_task(t).pending_approval_id)
      ELSE FALSE

\* C22: when store writes succeed and every browser and LLM call ends, a
\* task whose executor was started eventually is completed or failed; and a
\* task paused for an approval eventually fails unless the approval is given.
C22_Terminates ==
    \A t \in TaskIds :
        /\ (IF t \in Tasks THEN Starts(t) = 1 ELSE FALSE) ~> Ended(t)
        /\ PausedUnapproved(t) ~> FailedOrApproved(t)

C22_Witness ==
    \E t \in Tasks :
        /\ Ended(t)
        /\ TimedOut(t)
        /\ get_task(t).status = "failed"
        /\ ~Approved(get_task(t).pending_approval_id)
        /\ Len(gateway[t]) = 1

\* C23: when every step succeeded and generate_reply raised, the task is
\* stored as completed with the canned reply and without an error.
C23_CannedReplyPersisted ==
    \A t \in Tasks :
        (ex[t].pc = "returned" /\ task[t].reply = "canned") =>
            /\ task[t].status = "completed"
            /\ task[t].error = NoError
            /\ t \in DOMAIN db_tasks
            /\ get_task(t).status = "completed"
            /\ get_task(t).error = NoError
            /\ get_task(t).reply = "canned"

\* the step of task t at plan index i names a service other than browser
Foreign(t, i) == task[t].plan[i + 1].tool[1] # "browser"

\* C24: a step whose tool prefix is not browser is never handed to the
\* browser gateway; once the executor has reached such a step's dispatch it
\* records one error result for it, fails the task with an error naming it,
\* and no later step runs.
C24_UnknownServiceFails ==
    \A t \in Tasks :
        /\ \A i \in Dispatched(t) : ~Foreign(t, i)
        /\ \A k \in 1..Len(task[t].results) :
              LET r == task[t].results[k] IN
              Foreign(t, r.step_index) =>
                  /\ k = Len(task[t].results)
                  /\ r.status \in {"error", "skipped"}
                  /\ r.status = "error" => r.error = <<"service">>
                  /\ ex[t].idx = r.step_index
                  /\ ex[t].pc \in {"fail_step", "fail_approval", "returned", "crashed"}
        /\ (ex[t].exc = "service" /\ ex[t].pc = "returned") =>
              /\ Foreign(t, ex[t].idx)
              /\ task[t].status = "failed"
              /\ task[t].error = <<"step", ex[t].idx, task[t].plan[ex[t].idx + 1].tool, "service">>
              /\ Persisted(t)
              /\ \A i \in Dispatched(t) : i < ex[t].idx

C24_Witness ==
    \E t \in Tasks :
        /\ ex[t].exc = "service"
        /\ ex[t].pc = "returned"
        /\ ex[t].idx = 0
        /\ Len(task[t].plan) = 2
        /\ ~Foreign(t, 1)
        /\ gateway[t] = <<>>

\* ---- BrowserClient.dispatch
Seven == {"open", "navigate", "click", "type", "extract", "screenshot", "close"}

\* the dispatch call has ended or is waiting for the agent
Dispatching == client.pc \in {"sent", "returned", "raised"}

\* C25 as stated: dispatch rejects every action name outside the seven tool
\* names with an unknown-action error, before any request to the agent.
C25_RejectsOutsideSeven ==
    (Dispatching /\ client.action \notin Seven) =>
        client.exc = "ValueError" /\ client.sent = <<>>

\* C25 amended: dispatch maps the seven tool names and snapshot; it rejects
\* every other action name with an unknown-action error before any request
\* to the agent, and for snapshot it sends GET /v1/browser/snapshot.
C25_RejectsUnmapped ==
    /\ (Dispatching /\ client.action \notin Seven \cup {"snapshot"}) =>
          client.exc = "ValueError" /\ client.sent = <<>>
    /\ (Dispatching /\ client.action = "snapshot") =>
          /\ client.exc # "ValueError"
          /\ client.sent = <<[method |-> "GET", path |-> "/v1/browser/snapshot", body |-> {}]>>
    /\ client.pc # "none" => Len(client.sent) <= 1

C25_Witness ==
    /\ client.pc = "raised"
    /\ client.action = "scroll"
    /\ client.args = {"url"}

\* C26: the enqueue response is built when executor.run has been scheduled
\* and has not run: its status is pending or running, it has no results and
\* no reply, and it stays as it is while the task goes on.
C26_ResponseState ==
    \A t \in Tasks :
        (ex[t].via = "enqueue" /\ ex[t].http = 202) =>
            /\ Starts(t) = 1
            /\ ex[t].response.status \in {"pending", "running"}
            /\ ex[t].response.results = <<>>
            /\ ex[t].response.reply = "None"
            /\ ex[t].response.pending_approval_id = NoId

\* C26, the step that answers: it leaves the activity at the entry of run,
\* and no step, approval or reply has happened for the task.
C26_AnswerStep ==
    \A t \in DOMAIN ex :
        (ex[t].via = "enqueue" /\ ex'[t].http = 202 /\ ex[t].http # 202) =>
            /\ ex'[t].pc = "run"
            /\ gateway'[t] = <<>>
            /\ task'[t].results = <<>>
            /\ task'[t].reply = "None"
            /\ \A a \in DOMAIN db_approvals' : db_approvals'[a].task_id # t

\* C26: the invariant and the step property above, together.
C26_EnqueueAnswersFirst == [](C26_ResponseState) /\ [][C26_AnswerStep]_vars

C26_Witness ==
    \E t \in Tasks :
        /\ ex[t].via = "enqueue" /\ ex[t].http = 202
        /\ ex[t].pc = "wait"
        /\ t \in DOMAIN db_tasks /\ get_task(t).status = "paused_for_approval"
        /\ ex[t].response.status = "pending"

\* ---- the store alone
\* the k-th call on the store was op on approval id a
Called(k, op, a) == k \in 1..Len(calls) /\ calls[k] = <<op, a>>

\* C27: save_approval of an id that is already stored leaves its row as it
\* is (a resolved approval stays resolved) and keeps its signal as it is (a
\* set signal stays set); only the first save of an id creates the row and
\* a fresh, unset signal.
C27_SaveStep ==
    \A a \in StoreIds : \A t \in PairIds : \A i \in 0..(MaxSteps - 1) :
        Store_save_approval(a, ApprovalRecord(t, i)) =>
            /\ \A b \in DOMAIN db_approvals :
                  b \in DOMAIN db_approvals' /\ db_approvals'[b] = db_approvals[b]
            /\ \A b \in DOMAIN events : b \in DOMAIN events' /\ events'[b] = events[b]
            /\ a \notin DOMAIN db_approvals =>
                  /\ db_approvals'[a] = ApprovalRecord(t, i)
                  /\ events'[a] = FALSE
            /\ DOMAIN db_approvals' = DOMAIN db_approvals \cup {a}
            /\ DOMAIN events' = DOMAIN events \cup {a}

\* C27: every save_approval step is as described above.
C27_SaveIdempotent == [][C27_SaveStep]_vars

C27_Witness ==
    \E a \in StoreIds :
        /\ Called(1, "save_approval", a)
        /\ Called(2, "resolve_approval", a)
        /\ Called(3, "save_approval", a)
        /\ Approved(a)
        /\ events[a]

\* ---- restart
Lost == \E t \in DOMAIN ex : ex[t].pc = "lost"

\* C28: after a restart no approval id has a signal (get_signal returns
\* nothing for every id).
C28_NoSignals == Lost => DOMAIN events = {}

\* C28, the steps: the restart leaves the tables as they are; after it no
\* task row ever changes (a task stored as paused_for_approval stays so), and
\* a resolve_approval may mark the approval approved but sets no signal.
C28_Step ==
    /\ Restart => (db_tasks' = db_tasks /\ db_approvals' = db_approvals)
    /\ Lost => /\ db_tasks' = db_tasks
               /\ events' = events
               /\ fires' = fires
               /\ ex' = ex
               /\ \A a \in DOMAIN db_approvals :
                     \/ db_approvals'[a] = db_approvals[a]
                     \/ /\ ~Approved(a)
                        /\ db_approvals'[a].status = "approved"
                        /\ CopiesIn(<<a, 200>>, answers') = Count(a, 200) + 1

\* C28: the invariant and the step property above, together.
C28_RestartLosesSignals == [](C28_NoSignals) /\ [][C28_Step]_vars

C28_Witness ==
    \E t \in DOMAIN db_tasks :
        /\ ex[t].pc = "lost"
        /\ get_task(t).status = "paused_for_approval"
        /\ Approved(get_task(t).pending_approval_id)
        /\ fires[get_task(t).pending_approval_id] = 0
        /\ Count(get_task(t).pending_approval_id, 200) = 1

\* ---- periodic worker
\* the minute set the configuration value N stands for
Multiples(N) == {k * N : k \in 0..59} \cap 0..59

\* C29: the health_check minute set is {0, N, 2N, ...} below 60 when N > 0
\* divides 60, and the set for N = 5 otherwise.
C29_HealthCheckMinutes ==
    worker.pc \notin {"none", "import"} =>
        worker.minutes = IF worker.n > 0 /\ 60 % worker.n = 0 THEN Multiples(worker.n)
                         ELSE Multiples(5)

C29_Witness ==
    /\ worker.pc = "idle"
    /\ worker.n = 60
    /\ worker.minutes = {0}

\* C30: a job is never run more than max_tries times, and a job whose call
\* failed is run again: it is complete only after max_tries runs.
C30_RetriedOnFailure ==
    worker.pc \notin {"none", "import"} =>
        /\ worker.attempts <= max_tries
        /\ (worker.pc = "done" /\ worker.failed) => worker.attempts = max_tries

\* the jobs that call an ingress endpoint of the orchestrator
IngressJobs == {"daily_briefing", "browser_task"}

\* C31: every request a job sends to an ingress endpoint carries the fields
\* the endpoint requires (`message`), and a job run that the orchestrator
\* answered has created a task.
C31_IngressBodyAccepted ==
    (worker.pc \in {"running", "done"} /\ worker.job \in IngressJobs) =>
        \A k \in 1..Len(worker.sent) :
            /\ required[worker.sent[k].path] \subseteq worker.sent[k].body
            /\ worker.seen[k] # "error" => worker.created

\* ---- POST /internal/browser/proxy
\* the forwarded request failed
ForwardFailed == client.sent # <<>> /\ client.pc = "raised"

\* C32: the proxy answers 400 exactly when the gateway does not know the
\* action name, and then nothing was sent to the agent; it answers 502 when
\* the forwarded request failed (transport error, non-2xx answer, malformed
\* answer); in every other case it answers with {action, result}.
C32_ProxyCodes ==
    (client.pc # "none" /\ client.http # 0) =>
        /\ client.http = 400 <=> client.action \notin DOMAIN dispatch_map
        /\ client.http = 400 => client.sent = <<>>
        /\ ForwardFailed => client.http = 502
        /\ (client.action \in DOMAIN dispatch_map /\ ~ForwardFailed) => client.http = 200

\* ---- approval after the timeout
\* the stored task has a skipped result for step i
Skipped(t, i) ==
    /\ t \in DOMAIN db_tasks
    /\ \E k \in 1..Len(get_task(t).results) :
          /\ get_task(t).results[k].step_index = i
          /\ get_task(t).results[k].status = "skipped"

\* C33: an approval is never approved (approve answered 200 for it) while
\* its task is failed with a skipped result for the step it guards; the step
\* of an approved approval is dispatched unless the run ended otherwise.
C33_ApprovedIsDispatched ==
    \A a \in DOMAIN db_approvals :
        LET t == db_approvals[a].task_id
            i == db_approvals[a].step_index
        IN  (Approved(a) /\ Count(a, 200) >= 1) =>
                ~(get_task(t).status = "failed" /\ Skipped(t, i))

\* ---- results and current_step
\* the results of task t for step i, by their positions
ResultsOf(t, i) == {k \in 1..Len(task[t].results) : task[t].results[k].step_index = i}

\* C34: at most one StepResult is ever appended per step index, so no step
\* is recorded both as ok and as error.
C34_OneResultPerStep ==
    \A t \in Tasks : \A i \in 0..MaxSteps : Cardinality(ResultsOf(t, i)) <= 1

\* the executor has been started on t and has stored it at least once
Driven(t) == t \in DOMAIN db_tasks /\ Starts(t) >= 1 /\ ex[t].pc # "run"

\* C35, the stored states: 0 <= current_step < len(plan.steps), and
\* len(results) is current_step or current_step + 1.
C35_Bounds ==
    \A t \in Tasks :
        Driven(t) =>
            LET v == get_task(t) IN
            /\ 0 <= v.current_step
            /\ v.current_step < Len(v.plan)
            /\ Len(v.results) \in {v.current_step, v.current_step + 1}

\* C35, the steps: current_step never decreases.
C35_Step ==
    \A t \in DOMAIN db_tasks :
        /\ db_tasks'[t].current_step >= db_tasks[t].current_step
        /\ task'[t].current_step >= task[t].current_step

\* C35: the invariant and the step property above, together.
C35_CurrentStepBounds == [](C35_Bounds) /\ [][C35_Step]_vars

\* ---- signals of several tasks
\* the executor of t waits for the signal of approval a
Waits(t, a) == ex[t].pc = "wait" /\ ex[t].approval = a

\* C36, the steps: a step changes the signal of at most one approval; a
\* waiting executor is resumed only when its own approval has been resolved,
\* and otherwise leaves the wait only by its timeout; a resolve of another
\* approval leaves the waiting task as it is, paused_for_approval.
C36_Step ==
    /\ \A a, b \in DOMAIN events :
          (events'[a] # events[a] /\ events'[b] # events[b]) => a = b
    /\ \A t \in DOMAIN ex : \A a \in DOMAIN events :
          Waits(t, a) =>
              /\ ex'[t].pc \in {"wait", "dispatch", "skipped"}
              /\ ex'[t].pc = "dispatch" => (Approved(a) /\ events[a])
              /\ ex'[t].pc = "skipped" => ~events[a]
              /\ (\E b \in DOMAIN events \ {a} : events'[b] # events[b]) =>
                    /\ ex'[t] = ex[t]
                    /\ task'[t] = task[t]
                    /\ db_tasks'[t] = db_tasks[t]
                    /\ get_task(t).status = "paused_for_approval"

\* C36: no signal is set unless its own approval is approved, and every
\* step is as described above.
C36_Isolated ==
    /\ [](\A a \in DOMAIN events : events[a] => Approved(a))
    /\ [][C36_Step]_vars

C36_Witness ==
    \E a, b \in DOMAIN events :
        /\ DOMAIN ex = PairIds
        /\ Waits(1, a) /\ Waits(2, b)
        /\ events[b] /\ ~events[a]
        /\ get_task(1).status = "paused_for_approval"
        /\ task[2].status = "paused_for_approval"

\* ---- gateway requests against the agent's endpoints
\* C37: every request the gateway builds for one of the seven tool names has
\* the method of the agent endpoint it goes to and carries the fields that
\* endpoint's request model requires.
C37_RequestsConform ==
    (client.pc # "none" /\ client.action \in Seven) =>
        \A k \in 1..Len(client.sent) : Conforms(client.sent[k])

\* ---- browser agent
\* the string holds a stop-point keyword, in any case of letters
Keyword(s) ==
    \E k \in 1..Len(s) :
        \/ s[k] \in {"checkout", "Checkout"}
        \/ s[k] \in {"pay", "Pay"} /\ k < Len(s) /\ s[k + 1] = "now"

\* the last request was a click on a stop point: a keyword is in its
\* selector or in the element text that was resolved for it
StopPointClick ==
    /\ agent.pc = "up"
    /\ agent.last.action = "click"
    /\ Keyword(agent.last.selector) \/ Keyword(agent.last.text)

\* C38 as stated: a click on a stop point is performed only with force=true;
\* without force it is refused with the stop-point response (423) and the
\* page is not clicked.
C38_StopPointRefused ==
    StopPointClick =>
        /\ agent.last.performed => agent.last.force
        /\ ~agent.last.force => (agent.last.status = 423 /\ ~agent.last.performed)

\* C38 amended, the states: a click on a stop point is performed only with
\* force=true; without force the page is not clicked, and the answer is the
\* stop-point response (423) unless the browser is not open (409) or the
\* task's step limit is reached (429).
C38_Refused ==
    StopPointClick =>
        /\ agent.last.performed => agent.last.force
        /\ ~agent.last.force =>
              /\ ~agent.last.performed
              /\ agent.last.status =
                    IF ~agent.open THEN 409
                    ELSE IF agent.last.count >= agent.max_steps_per_task THEN 429
                    ELSE 423

\* C38 amended, the steps: a click refused as a stop point in a session with
\* a task id has been counted, and is not among the performed ones.
C38_Step ==
    (agent'.last.action = "click" /\ agent'.last.status = 423 /\ agent' # agent) =>
        /\ agent'.done = agent.done
        /\ agent.current_task_id # NoTask =>
              agent'.step_counts[agent.current_task_id]
                  = agent.step_counts[agent.current_task_id] + 1

\* C38 amended: the invariant and the step property above, together.
C38_StopPointGuard == [](C38_Refused) /\ [][C38_Step]_vars

C38_Witness ==
    /\ agent.pc = "up"
    /\ agent.last.action = "click"
    /\ agent.last.status = 423
    /\ agent.last.selector = <<"ok">>
    /\ agent.last.text = <<"Pay", "now">>
    /\ agent.last.task_id = "t1"
    /\ agent.step_counts["t1"] = 2
    /\ agent.done["t1"] = 1

\* the actions that count as steps of a task
Counted == {"navigate", "click", "type"}

\* C39, the states: for a task id no more than max_steps_per_task actions
\* are performed; a counted action in a session with a task id is rejected
\* (429) exactly when it brings the count to the limit or beyond; in a
\* session without a task id nothing is counted and nothing is rejected for
\* the limit.
C39_Limit ==
    agent.pc = "up" =>
        /\ \A tid \in DOMAIN agent.step_counts :
              /\ agent.done[tid] <= agent.max_steps_per_task
              /\ agent.done[tid] <= agent.step_counts[tid]
        /\ (agent.last.action \in Counted /\ agent.last.status \notin {403, 409}) =>
              IF agent.last.task_id # NoTask
                THEN /\ agent.last.count >= 1
                     /\ agent.last.count >= agent.max_steps_per_task =>
                           (agent.last.status = 429 /\ ~agent.last.performed)
                     /\ agent.last.count < agent.max_steps_per_task =>
                           agent.last.status # 429
                ELSE agent.last.status # 429 /\ agent.last.count = 0

\* C39, the steps: a counter changes only by a counted action of the session
\* that has its task id.
C39_Step ==
    \A tid \in DOMAIN agent.step_counts :
        agent'.step_counts[tid] # agent.step_counts[tid] =>
            /\ agent.current_task_id = tid
            /\ agent'.last.action \in Counted
            /\ agent'.step_counts[tid] = agent.step_counts[tid] + 1

====
